---- MODULE Spec2Model ----
(***************************************************************************)
(* Track Monitoring System (src/main.py): a Streamlit dashboard script.    *)
(*                                                                         *)
(* The script is re-executed top to bottom on every widget event and on    *)
(* every st.rerun().  Session state (monitoring_data, monitoring_active,   *)
(* reports, alerts) survives between runs.  The model follows one script   *)
(* run statement block by statement block (pc), lets the user act on a     *)
(* widget while the script sleeps or has ended, and keeps what each tab    *)
(* rendered last.                                                          *)
(*                                                                         *)
(* Sensor values and thresholds are held in tenths of their unit (65 dB is *)
(* 650, 0.5 g is 5): every threshold of the program is a multiple of 0.1.  *)
(* The health score is computed in exact rational arithmetic.              *)
(***************************************************************************)
EXTENDS Integers, Sequences, FiniteSets, TLC

VARIABLES
    monitoring_data,    \* st.session_state.monitoring_data: five streams
    monitoring_active,  \* st.session_state.monitoring_active
    reports,            \* st.session_state.reports
    alerts,             \* st.session_state.alerts (index 1 = newest)
    pc,                 \* position of the script run
    event,              \* widget event carried into the next / current run
    clock,              \* number of datetime.now() calls made so far
    new_data,           \* update_monitoring_data: local new_data
    current_time,       \* update_monitoring_data: local current_time
    overview,           \* what the Overview tab rendered last
    chart,              \* what the Real-time tab rendered last
    shown_alerts,       \* what the Alerts tab rendered last
    produced            \* history: readings appended since the last clear

vars == <<monitoring_data, monitoring_active, reports, alerts, pc, event,
          clock, new_data, current_time, overview, chart, shown_alerts,
          produced>>

---------------------------------------------------------------------------
(* Bounds of the model *)

\* datetime.now() calls (ticks and report submissions) explored by Spec
MaxClock == 3

\* ticks explored by SpecLong (the buffer capacity is exceeded from tick 101)
MaxTicksLong == 102

\* SpecLong lets the user clear the data only within the first ticks
MaxClearClock == 2

---------------------------------------------------------------------------
(* Exact rational arithmetic: <<numerator, denominator>>, denominator > 0,  *)
(* always in lowest terms.                                                  *)

RECURSIVE GCD(_, _)
GCD(a, b) == IF b = 0 THEN a ELSE GCD(b, a % b)

IAbs(x) == IF x < 0 THEN -x ELSE x

RatNorm(q) ==
    LET n == IF q[2] < 0 THEN -q[1] ELSE q[1]
        d == IAbs(q[2])
        g == GCD(IAbs(n), d)
    IN  <<n \div g, d \div g>>

RInt(n)    == <<n, 1>>
RAdd(p, q) == RatNorm(<<p[1] * q[2] + q[1] * p[2], p[2] * q[2]>>)
RSub(p, q) == RatNorm(<<p[1] * q[2] - q[1] * p[2], p[2] * q[2]>>)
RMul(p, q) == RatNorm(<<p[1] * q[1], p[2] * q[2]>>)
RDiv(p, q) == RatNorm(<<p[1] * q[2], p[2] * q[1]>>)
RAbs(p)    == <<IAbs(p[1]), p[2]>>
RLeq(p, q) == p[1] * q[2] <= q[1] * p[2]

\* a value held in tenths of its unit, as a number of units
Val(x) == RatNorm(<<x, 10>>)

---------------------------------------------------------------------------
(* Constants of the program *)

Metrics == {"acoustic", "vibration", "temperature", "humidity"}

\* iteration order of the dicts new_data, weights and THRESHOLDS
MetricOrder == <<"acoustic", "vibration", "temperature", "humidity">>

MetricIndex(m) == CHOOSE i \in 1..Len(MetricOrder) : MetricOrder[i] = m

\* THRESHOLDS, in tenths of the unit
THRESHOLDS ==
    [acoustic    |-> [warning |-> 650, danger |-> 750, unit |-> "dB",
                      min |-> 400, max |-> 900],
     vibration   |-> [warning |-> 5,   danger |-> 7,   unit |-> "g",
                      min |-> 0,   max |-> 10],
     temperature |-> [warning |-> 280, danger |-> 300, unit |-> "°C",
                      min |-> 200, max |-> 350],
     humidity    |-> [warning |-> 650, danger |-> 750, unit |-> "%",
                      min |-> 300, max |-> 900]]

max_points == 100

NoData == [none |-> TRUE]

---------------------------------------------------------------------------
(* calculate_health_score *)

weights_wrong_split ==
    [acoustic |-> <<2, 10>>, vibration |-> <<4, 10>>,
     temperature |-> <<2, 10>>, humidity |-> <<2, 10>>]

weights ==
    [acoustic |-> <<3, 10>>, vibration |-> <<3, 10>>,
     temperature |-> <<2, 10>>, humidity |-> <<2, 10>>]

normalized_values_narrow_temperature(data) ==
    [acoustic |->
        RSub(RInt(1),
             RDiv(RSub(Val(data.acoustic), Val(THRESHOLDS.acoustic.min)),
                  RSub(Val(THRESHOLDS.acoustic.max),
                       Val(THRESHOLDS.acoustic.min)))),
     vibration |-> RSub(RInt(1), Val(data.vibration)),
     temperature |->
        RSub(RInt(1),
             RDiv(RAbs(RSub(Val(data.temperature), RInt(25))), RInt(5))),
     humidity |->
        RSub(RInt(1),
             RDiv(RAbs(RSub(Val(data.humidity), RInt(60))), RInt(40)))]

normalized_values(data) ==
    [acoustic |->
        RSub(RInt(1),
             RDiv(RSub(Val(data.acoustic), Val(THRESHOLDS.acoustic.min)),
                  RSub(Val(THRESHOLDS.acoustic.max),
                       Val(THRESHOLDS.acoustic.min)))),
     vibration |-> RSub(RInt(1), Val(data.vibration)),
     temperature |->
        RSub(RInt(1),
             RDiv(RAbs(RSub(Val(data.temperature), RInt(25))), RInt(15))),
     humidity |->
        RSub(RInt(1),
             RDiv(RAbs(RSub(Val(data.humidity), RInt(60))), RInt(40)))]

\* sum(...): left to right over the keys of weights, starting from 0
RECURSIVE WeightedSum(_, _, _)
WeightedSum(nv, i, acc) ==
    IF i > Len(MetricOrder) THEN acc
    ELSE WeightedSum(nv, i + 1,
                     RAdd(acc, RMul(nv[MetricOrder[i]],
                                    weights[MetricOrder[i]])))

calculate_health_score(data) ==
    RMul(WeightedSum(normalized_values(data), 1, RInt(0)), RInt(100))

get_status_color(value, metric) ==
    IF value >= THRESHOLDS[metric].danger THEN "danger"
    ELSE IF value >= THRESHOLDS[metric].warning THEN "warning"
    ELSE "good"

---------------------------------------------------------------------------
(* generate_sensor_data: random.uniform(min, max) per metric.  The model   *)
(* samples each range at its two ends, at both thresholds, between the     *)
(* thresholds, and at one more interior point.                             *)

\* per metric: min, warning, between warning and danger, danger, max
Levels ==
    [acoustic    |-> <<400, 650, 700, 750, 900>>,
     vibration   |-> <<0, 5, 6, 7, 10>>,
     temperature |-> <<200, 280, 290, 300, 350>>,
     humidity    |-> <<300, 650, 700, 750, 900>>]

Interior ==
    [acoustic |-> 800, vibration |-> 2, temperature |-> 250, humidity |-> 600]

SampleValues(m) ==
    {Levels[m][i] : i \in 1..Len(Levels[m])} \cup {Interior[m]}

generate_sensor_data ==
    {[acoustic |-> a, vibration |-> v, temperature |-> t, humidity |-> h] :
        a \in SampleValues("acoustic"), v \in SampleValues("vibration"),
        t \in SampleValues("temperature"), h \in SampleValues("humidity")}

ReadingAt(lv) == [m \in Metrics |-> Levels[m][lv[MetricIndex(m)]]]

\* the readings a tick of Spec draws from: every metric at the same level,
\* and two readings that mix levels
TickLevels ==
    {<<i, i, i, i>> : i \in 1..5} \cup {<<4, 2, 1, 3>>, <<1, 4, 2, 5>>}

TickReadings == {ReadingAt(lv) : lv \in TickLevels}

\* the reading tick number k of SpecLong draws: a fixed cycle
ReplayLevels ==
    <<<<1, 1, 1, 1>>, <<4, 2, 1, 3>>, <<1, 1, 2, 1>>, <<1, 4, 2, 5>>,
      <<3, 1, 1, 1>>>>

ReplayReading(k) == ReadingAt(ReplayLevels[(k % Len(ReplayLevels)) + 1])

\* the form inputs a submission of Spec draws from
FormInputs ==
    {[type |-> "Inspection", title |-> "t", description |-> "d",
      priority |-> "Low"],
     [type |-> "Incident", title |-> "t", description |-> "d",
      priority |-> "Critical"]}

---------------------------------------------------------------------------
(* Session state and helpers *)

Streams == Metrics \cup {"timestamps"}

EmptyData == [k \in Streams |-> <<>>]

NoEvent == [kind |-> "none", form |-> NoData]

\* monitoring_data[metric][-1]
Last_oldest(s) == s[1]

Last(s) == s[Len(s)]

\* lst.append(x); if len(lst) > max_points: lst = lst[-max_points:]
AppendBounded_keep_oldest(s, x) ==
    LET t == Append(s, x)
    IN  IF Len(t) > max_points THEN SubSeq(t, 1, max_points) ELSE t

AppendBounded(s, x) ==
    LET t == Append(s, x)
    IN  IF Len(t) > max_points
        THEN SubSeq(t, Len(t) - max_points + 1, Len(t))
        ELSE t

\* f'{value:.1f}' of a value held in tenths: integer part and one decimal
Format1f(value) == [whole |-> value \div 10, tenth |-> value % 10]

AlertRecord(time, type, metric, value) ==
    [time |-> time, type |-> type,
     message |-> [text   |-> IF type = "CRITICAL"
                             THEN "High {metric} level detected"
                             ELSE "Elevated {metric} level",
                  metric |-> metric,
                  value  |-> Format1f(value),
                  unit   |-> THRESHOLDS[metric].unit]]

\* alerts.insert(0, rec)
InsertAlert_append(log, rec) == Append(log, rec)

InsertAlert_overwrite(log, rec) ==
    IF log = <<>> THEN <<rec>> ELSE <<rec>> \o Tail(log)

InsertAlert(log, rec) == <<rec>> \o log

\* one iteration of the alert loop, for one metric
EvaluateMetric_warning_first(log, time, metric, value) ==
    IF value >= THRESHOLDS[metric].warning
    THEN InsertAlert(log, AlertRecord(time, "WARNING", metric, value))
    ELSE IF value >= THRESHOLDS[metric].danger
    THEN InsertAlert(log, AlertRecord(time, "CRITICAL", metric, value))
    ELSE log

EvaluateMetric_strict_warning(log, time, metric, value) ==
    IF value >= THRESHOLDS[metric].danger
    THEN InsertAlert(log, AlertRecord(time, "CRITICAL", metric, value))
    ELSE IF value > THRESHOLDS[metric].warning
    THEN InsertAlert(log, AlertRecord(time, "WARNING", metric, value))
    ELSE log

EvaluateMetric(log, time, metric, value) ==
    IF value >= THRESHOLDS[metric].danger
    THEN InsertAlert(log, AlertRecord(time, "CRITICAL", metric, value))
    ELSE IF value >= THRESHOLDS[metric].warning
    THEN InsertAlert(log, AlertRecord(time, "WARNING", metric, value))
    ELSE log

\* for metric, value in new_data.items(): ...
RECURSIVE AlertLoop(_, _, _, _)
AlertLoop(log, time, data, i) ==
    IF i > Len(MetricOrder) THEN log
    ELSE AlertLoop(EvaluateMetric(log, time, MetricOrder[i],
                                  data[MetricOrder[i]]),
                   time, data, i + 1)

\* the statements of update_monitoring_data, in program order
UpdateOrder_alerts_before_append == <<"sample", "alert", "append">>

UpdateOrder == <<"sample", "append", "alert">>

\* where the script is after the statement at position p
After(p) ==
    LET i == CHOOSE j \in 1..Len(UpdateOrder) : UpdateOrder[j] = p
    IN  IF i < Len(UpdateOrder) THEN UpdateOrder[i + 1] ELSE "sleep"

\* the Clear Data handler: every stream becomes []
ClearData_keep_timestamps(data) ==
    [k \in Streams |-> IF k = "timestamps" THEN data[k] ELSE <<>>]

ClearData(data) == [k \in Streams |-> <<>>]

---------------------------------------------------------------------------
(* The initial state: the session opens and the first run starts *)

Init ==
    /\ monitoring_data = EmptyData
    /\ monitoring_active = FALSE
    /\ reports = <<>>
    /\ alerts = <<>>
    /\ pc = "sidebar"
    /\ event = NoEvent
    /\ clock = 0
    /\ new_data = NoData
    /\ current_time = 0
    /\ overview = [waiting |-> TRUE, latest_data |-> NoData,
                   health_score |-> NoData, status |-> NoData]
    /\ chart = [waiting |-> TRUE, x |-> <<>>, y |-> <<>>]
    /\ shown_alerts = <<>>
    /\ produced = <<>>

---------------------------------------------------------------------------
(* The user: acts on a widget while the script sleeps or has ended *)

Waiting == pc \in {"idle", "sleep"} /\ event = NoEvent

UserToggle ==
    /\ Waiting
    /\ event' = [kind |-> "toggle", form |-> NoData]
    /\ UNCHANGED <<monitoring_data, monitoring_active, reports, alerts, pc,
                   clock, new_data, current_time, overview, chart,
                   shown_alerts, produced>>

UserClear ==
    /\ Waiting
    /\ event' = [kind |-> "clear", form |-> NoData]
    /\ UNCHANGED <<monitoring_data, monitoring_active, reports, alerts, pc,
                   clock, new_data, current_time, overview, chart,
                   shown_alerts, produced>>

UserSubmit(form) ==
    /\ Waiting
    /\ event' = [kind |-> "submit", form |-> form]
    /\ UNCHANGED <<monitoring_data, monitoring_active, reports, alerts, pc,
                   clock, new_data, current_time, overview, chart,
                   shown_alerts, produced>>

\* a widget event starts a run of the script that has ended
WidgetRerun ==
    /\ pc = "idle"
    /\ event # NoEvent
    /\ pc' = "sidebar"
    /\ UNCHANGED <<monitoring_data, monitoring_active, reports, alerts,
                   event, clock, new_data, current_time, overview, chart,
                   shown_alerts, produced>>

---------------------------------------------------------------------------
(* One run of the script *)

\* the sidebar: the Active Monitoring toggle, then the Clear Data button
Sidebar ==
    /\ pc = "sidebar"
    /\ LET monitoring_toggle ==
               IF event.kind = "toggle" THEN ~monitoring_active
               ELSE monitoring_active
       IN  monitoring_active' = monitoring_toggle
    /\ IF event.kind = "clear"
       THEN /\ monitoring_data' = ClearData(monitoring_data)
            /\ produced' = <<>>
       ELSE UNCHANGED <<monitoring_data, produced>>
    /\ event' = IF event.kind \in {"toggle", "clear"} THEN NoEvent ELSE event
    /\ pc' = "overview"
    /\ UNCHANGED <<reports, alerts, clock, new_data, current_time, overview,
                   chart, shown_alerts>>

\* the Overview tab: health score gauge and metric cards of the latest reading
OverviewTab ==
    /\ pc = "overview"
    /\ IF monitoring_data["acoustic"] # <<>>
       THEN LET latest_data ==
                    [m \in Metrics |-> Last(monitoring_data[m])]
            IN  overview' =
                    [waiting |-> FALSE,
                     latest_data |-> latest_data,
                     health_score |-> calculate_health_score(latest_data),
                     status |-> [m \in Metrics |->
                                   get_status_color(latest_data[m], m)]]
       ELSE overview' = [waiting |-> TRUE, latest_data |-> NoData,
                         health_score |-> NoData, status |-> NoData]
    /\ pc' = "realtime"
    /\ UNCHANGED <<monitoring_data, monitoring_active, reports, alerts,
                   event, clock, new_data, current_time, chart, shown_alerts,
                   produced>>

\* the Real-time tab: the timestamps against the selected metric (acoustic)
RealtimeTab ==
    /\ pc = "realtime"
    /\ IF monitoring_data["timestamps"] # <<>>
       THEN chart' = [waiting |-> FALSE,
                      x |-> monitoring_data["timestamps"],
                      y |-> monitoring_data["acoustic"]]
       ELSE chart' = [waiting |-> TRUE, x |-> <<>>, y |-> <<>>]
    /\ pc' = "reports"
    /\ UNCHANGED <<monitoring_data, monitoring_active, reports, alerts,
                   event, clock, new_data, current_time, overview,
                   shown_alerts, produced>>

\* the Reports tab: the form's submit handler
ReportsTab ==
    /\ pc = "reports"
    /\ IF event.kind = "submit"
       THEN /\ reports' = Append(reports,
                                 [type |-> event.form.type,
                                  title |-> event.form.title,
                                  description |-> event.form.description,
                                  priority |-> event.form.priority,
                                  time |-> clock + 1])
            /\ clock' = clock + 1
            /\ event' = NoEvent
       ELSE UNCHANGED <<reports, clock, event>>
    /\ pc' = "alerts_tab"
    /\ UNCHANGED <<monitoring_data, monitoring_active, alerts, new_data,
                   current_time, overview, chart, shown_alerts, produced>>

\* the Alerts tab: alerts[:10]
AlertsTab ==
    /\ pc = "alerts_tab"
    /\ shown_alerts' = SubSeq(alerts, 1, IF Len(alerts) < 10 THEN Len(alerts)
                                         ELSE 10)
    /\ pc' = "monitor"
    /\ UNCHANGED <<monitoring_data, monitoring_active, reports, alerts,
                   event, clock, new_data, current_time, overview, chart,
                   produced>>

\* if st.session_state.monitoring_active: update_monitoring_data() ...
MonitorCheck ==
    /\ pc = "monitor"
    /\ pc' = IF monitoring_active THEN UpdateOrder[1] ELSE "idle"
    /\ UNCHANGED <<monitoring_data, monitoring_active, reports, alerts,
                   event, clock, new_data, current_time, overview, chart,
                   shown_alerts, produced>>

\* update_monitoring_data: current_time = now(); new_data = generate...()
Sample(reading) ==
    /\ pc = "sample"
    /\ current_time' = clock + 1
    /\ clock' = clock + 1
    /\ new_data' = reading
    /\ pc' = After("sample")
    /\ UNCHANGED <<monitoring_data, monitoring_active, reports, alerts,
                   event, overview, chart, shown_alerts, produced>>

\* update_monitoring_data: append to the five streams, each cut to max_points
AppendBuffer ==
    /\ pc = "append"
    /\ monitoring_data' =
           [k \in Streams |->
               AppendBounded(monitoring_data[k],
                             IF k = "timestamps" THEN current_time
                             ELSE new_data[k])]
    /\ produced' = Append(produced,
                          [time |-> current_time, reading |-> new_data])
    /\ pc' = After("append")
    /\ UNCHANGED <<monitoring_active, reports, alerts, event, clock,
                   new_data, current_time, overview, chart, shown_alerts>>

\* update_monitoring_data: the alert loop
GenerateAlerts ==
    /\ pc = "alert"
    /\ alerts' = AlertLoop(alerts, current_time, new_data, 1)
    /\ pc' = After("alert")
    /\ UNCHANGED <<monitoring_data, monitoring_active, reports, event, clock,
                   new_data, current_time, overview, chart, shown_alerts,
                   produced>>

\* time.sleep(update_interval); st.rerun()
SleepRerun ==
    /\ pc = "sleep"
    /\ pc' = "sidebar"
    /\ UNCHANGED <<monitoring_data, monitoring_active, reports, alerts,
                   event, clock, new_data, current_time, overview, chart,
                   shown_alerts, produced>>

---------------------------------------------------------------------------
(* The dashboard, with every user action, for MaxClock clock readings *)

Next ==
    \/ UserToggle
    \/ UserClear
    \/ (clock < MaxClock /\ \E form \in FormInputs : UserSubmit(form))
    \/ WidgetRerun
    \/ Sidebar
    \/ OverviewTab
    \/ RealtimeTab
    \/ ReportsTab
    \/ AlertsTab
    \/ MonitorCheck
    \/ (clock < MaxClock /\ \E reading \in TickReadings : Sample(reading))
    \/ AppendBuffer
    \/ GenerateAlerts
    \/ SleepRerun

Spec == Init /\ [][Next]_vars

---------------------------------------------------------------------------
(* The dashboard over a long run: MaxTicksLong ticks of a fixed cycle of    *)
(* readings, the user pausing and resuming at will, and clearing the data   *)
(* early on or once the buffer is full.                                     *)

MayClear ==
    \/ clock <= MaxClearClock
    \/ Len(monitoring_data["timestamps"]) = max_points

NextLong ==
    \/ UserToggle
    \/ (MayClear /\ UserClear)
    \/ WidgetRerun
    \/ Sidebar
    \/ OverviewTab
    \/ RealtimeTab
    \/ ReportsTab
    \/ AlertsTab
    \/ MonitorCheck
    \/ (clock < MaxTicksLong /\ Sample(ReplayReading(clock + 1)))
    \/ AppendBuffer
    \/ GenerateAlerts
    \/ SleepRerun

SpecLong == Init /\ [][NextLong]_vars

---------------------------------------------------------------------------
(* The health score as a function of the reading: the run that follows one  *)
(* tick and a pause, for every reading generate_sensor_data can return.     *)

InitScore ==
    \E reading \in generate_sensor_data :
        /\ monitoring_data =
               [k \in Streams |->
                   <<IF k = "timestamps" THEN 1 ELSE reading[k]>>]
        /\ monitoring_active = FALSE
        /\ reports = <<>>
        /\ alerts = AlertLoop(<<>>, 1, reading, 1)
        /\ pc = "overview"
        /\ event = NoEvent
        /\ clock = 1
        /\ new_data = reading
        /\ current_time = 1
        /\ overview = [waiting |-> TRUE, latest_data |-> NoData,
                       health_score |-> NoData, status |-> NoData]
        /\ chart = [waiting |-> TRUE, x |-> <<>>, y |-> <<>>]
        /\ shown_alerts = <<>>
        /\ produced = <<[time |-> 1, reading |-> reading]>>

NextScore ==
    \/ OverviewTab
    \/ RealtimeTab
    \/ ReportsTab
    \/ AlertsTab
    \/ MonitorCheck

SpecScore == InitScore /\ [][NextScore]_vars

---------------------------------------------------------------------------
(* Properties *)

InRange(reading) ==
    \A m \in Metrics :
        /\ THRESHOLDS[m].min <= reading[m]
        /\ reading[m] <= THRESHOLDS[m].max

\* C1: the health score of every reading whose four values lie within
\* their configured ranges is in [0, 100].
C1_ScoreInRange ==
    (~overview.waiting /\ InRange(overview.latest_data)) =>
        /\ RLeq(RInt(0), overview.health_score)
        /\ RLeq(overview.health_score, RInt(100))

\* the worst reading of the range is scored, at 35/3
C1_Witness ==
    /\ ~overview.waiting
    /\ overview.latest_data =
           [acoustic |-> 900, vibration |-> 10, temperature |-> 350,
            humidity |-> 300]
    /\ overview.health_score = <<35, 3>>

\* 300 * 100*(0.3*(1-(a-40)/50) + 0.3*(1-v) + 0.2*(1-|t-25|/15)
\*            + 0.2*(1-|h-60|/40)), for a, v, t, h given in tenths
ClosedForm300(reading) ==
    18 * (900 - reading.acoustic) + 900 * (10 - reading.vibration)
    + (6000 - 40 * IAbs(reading.temperature - 250))
    + (6000 - 15 * IAbs(reading.humidity - 600))

ExampleReading ==
    [acoustic |-> 800, vibration |-> 2, temperature |-> 250,
     humidity |-> 600]

\* C2: the health score equals, in exact arithmetic,
\* 100*(0.3*(1-(a-40)/50) + 0.3*(1-v) + 0.2*(1-|t-25|/15) + 0.2*(1-|h-60|/40)),
\* and the reading (80, 0.2, 25, 60) is scored exactly 70.
C2_WeightedSum ==
    ~overview.waiting =>
        /\ overview.health_score[1] * 300 =
               ClosedForm300(overview.latest_data) * overview.health_score[2]
        /\ overview.latest_data = ExampleReading =>
               overview.health_score = <<70, 1>>

C2_Witness ==
    /\ ~overview.waiting
    /\ overview.latest_data = ExampleReading
    /\ overview.health_score = <<70, 1>>

\* update_monitoring_data has run to its end for the reading new_data
TickDone == new_data # NoData /\ pc \notin {"append", "alert"}

\* the alerts carrying the time of the last tick
TickAlerts == SelectSeq(alerts, LAMBDA a : a.time = current_time)

TickAlertsOf(m) == SelectSeq(TickAlerts, LAMBDA a : a.message.metric = m)

\* C3: a tick adds, for every metric whose value is at or above its danger
\* level, exactly one alert, of type CRITICAL, and no WARNING alert.
C3_DangerIsCritical ==
    TickDone =>
        \A m \in Metrics :
            new_data[m] >= THRESHOLDS[m].danger =>
                /\ Len(TickAlertsOf(m)) = 1
                /\ TickAlertsOf(m)[1].type = "CRITICAL"

\* every metric exactly at its danger level: four alerts
C3_Witness ==
    /\ TickDone
    /\ \A m \in Metrics : new_data[m] = THRESHOLDS[m].danger
    /\ Len(TickAlerts) = 4

\* C4: a tick adds, for every metric whose value is below its danger level,
\* exactly one WARNING alert when the value is at or above the warning level
\* and no alert at all when it is below; never a CRITICAL alert.
C4_WarningBelowDanger ==
    TickDone =>
        \A m \in Metrics :
            new_data[m] < THRESHOLDS[m].danger =>
                IF new_data[m] >= THRESHOLDS[m].warning
                THEN /\ Len(TickAlertsOf(m)) = 1
                     /\ TickAlertsOf(m)[1].type = "WARNING"
                ELSE Len(TickAlertsOf(m)) = 0

\* vibration exactly at its warning level, temperature below its own
C4_Witness ==
    /\ TickDone
    /\ new_data["vibration"] = THRESHOLDS["vibration"].warning
    /\ new_data["temperature"] < THRESHOLDS["temperature"].warning
    /\ Len(TickAlertsOf("vibration")) = 1
    /\ Len(TickAlertsOf("temperature")) = 0

\* C5: in the alert log every alert of a later tick stands before every
\* alert of an earlier tick, and the alerts of one tick stand in reverse
\* metric order (humidity first, acoustic deepest).
C5_AlertOrder ==
    \A i, j \in 1..Len(alerts) :
        i < j =>
            /\ alerts[i].time >= alerts[j].time
            /\ alerts[i].time = alerts[j].time =>
                   MetricIndex(alerts[i].message.metric)
                       > MetricIndex(alerts[j].message.metric)

\* two ticks with at least two alerts each
C5_Witness ==
    \E i \in 1..Len(alerts) :
        /\ i + 3 <= Len(alerts)
        /\ alerts[i].time = alerts[i + 1].time
        /\ alerts[i + 1].time > alerts[i + 2].time
        /\ alerts[i + 2].time = alerts[i + 3].time

Min(a, b) == IF a < b THEN a ELSE b

\* what stream k received with the i-th reading appended since the last clear
ProducedFor(k, i) ==
    IF k = "timestamps" THEN produced[i].time ELSE produced[i].reading[k]

\* C6: every stream holds at most 100 values, and after n ticks since the
\* last Clear Data exactly the most recent min(n, 100) values, newest last.
C6_BoundedBuffer ==
    LET n    == Len(produced)
        kept == Min(n, max_points)
    IN  \A k \in Streams :
            /\ Len(monitoring_data[k]) <= max_points
            /\ monitoring_data[k] =
                   [i \in 1..kept |-> ProducedFor(k, n - kept + i)]

\* 101 readings appended: the first is gone and 100 remain
C6_Witness ==
    /\ Len(produced) = max_points + 1
    /\ Len(monitoring_data["timestamps"]) = max_points
    /\ monitoring_data["timestamps"][1] = produced[2].time
    /\ \A i \in 1..max_points :
           monitoring_data["timestamps"][i] # produced[1].time

IsSuffix(s, t) ==
    /\ Len(s) <= Len(t)
    /\ SubSeq(t, Len(t) - Len(s) + 1, Len(t)) = s

\* C7: no step of the dashboard removes, reorders or modifies a record of
\* the alert log: the log before a step is a suffix of the log after it.
C7_AlertsAppendOnly == [][IsSuffix(alerts, alerts')]_vars

\* alerts of two ticks survive a Clear Data and a report submission
C7_Witness ==
    /\ \E i, j \in 1..Len(alerts) : alerts[i].time # alerts[j].time
    /\ monitoring_data = EmptyData
    /\ reports # <<>>

\* the reading of the last tick is the newest entry of the buffer
Appended ==
    /\ monitoring_data["timestamps"] # <<>>
    /\ monitoring_data["timestamps"][Len(monitoring_data["timestamps"])]
           = current_time

\* the alert log holds every alert the reading of the last tick calls for
TickEvaluated == TickAlerts = AlertLoop(<<>>, current_time, new_data, 1)

\* C8 as stated: evaluation precedes the buffer append, so a reading that
\* is in the buffer has had its alerts raised.
C8_EvaluateBeforeAppend == Appended => TickEvaluated

\* C8, amended: a tick samples, then appends to the buffer, then raises the
\* alerts; the redisplay (with the health score) comes after all three, and
\* no tick samples before the previous one has raised its alerts.
C8_TickOrder ==
    [][/\ monitoring_data' # monitoring_data /\ monitoring_data' # EmptyData
           => /\ new_data' = new_data /\ current_time' = current_time
              /\ TickAlerts = <<>>
              /\ Appended'
       /\ alerts' # alerts
           => /\ Appended
              /\ TickEvaluated'
       /\ (chart' # chart /\ ~chart'.waiting
              /\ chart'.x[Len(chart'.x)] = current_time)
           => /\ Appended /\ TickEvaluated
       /\ (overview' # overview /\ ~overview'.waiting)
           => /\ TickEvaluated
              /\ overview'.health_score =
                     calculate_health_score(overview'.latest_data)
       /\ current_time' # current_time
           => (current_time = 0 \/ TickEvaluated)
      ]_vars

\* a reading with alerts has been appended, evaluated and redisplayed
C8_Witness ==
    /\ Appended /\ TickEvaluated /\ TickAlerts # <<>>
    /\ ~chart.waiting /\ chart.x[Len(chart.x)] = current_time
    /\ ~overview.waiting /\ overview.latest_data = new_data

\* the Overview and Real-time tabs show the reading of the last tick
DisplayedLatest ==
    /\ ~overview.waiting
    /\ overview.latest_data = new_data
    /\ overview.health_score = calculate_health_score(new_data)
    /\ ~chart.waiting
    /\ chart.x[Len(chart.x)] = current_time

\* C9 as stated: when a tick is about to sample, the reading of the previous
\* tick has been displayed as the latest reading.
C9_ConsumedBeforeNext ==
    (pc = "sample" /\ new_data # NoData) => DisplayedLatest

\* C9, amended: when a tick is about to sample, the reading of the previous
\* tick has been displayed as the latest reading, unless Clear Data emptied
\* the buffer first: then the tabs show "Waiting for monitoring data...".
C9_ConsumedUnlessCleared ==
    (pc = "sample" /\ new_data # NoData) =>
        \/ DisplayedLatest
        \/ /\ monitoring_data = EmptyData
           /\ overview.waiting
           /\ chart.waiting

\* the second tick is about to sample and the first reading is on display
C9_Witness ==
    /\ pc = "sample"
    /\ new_data # NoData
    /\ DisplayedLatest
    /\ Len(monitoring_data["timestamps"]) >= 2

\* C10: the five streams always have the same length, and the values at one
\* index belong to one reading.
C10_NoPartialReadings ==
    /\ \A k \in Streams :
           Len(monitoring_data[k]) = Len(monitoring_data["timestamps"])
    /\ \A i \in 1..Len(monitoring_data["timestamps"]) :
           \E j \in 1..Len(produced) :
               produced[j] =
                   [time |-> monitoring_data["timestamps"][i],
                    reading |-> [m \in Metrics |-> monitoring_data[m][i]]]

\* two ticks, a Clear Data, and a third tick
C10_Witness ==
    /\ monitoring_data["timestamps"] = <<3>>
    /\ reports = <<>>
    /\ monitoring_data["acoustic"] # <<>>

====
